---- MODULE Spec2Model ----
(***************************************************************************)
(* Model of the grippenet choropleth map widget: the data normalisation of *)
(* ChoroMap.importData, the palette resolution of buildPalettes, the       *)
(* DataView record access, the style / legend refresh of updateStyle and   *)
(* the popup Template.                                                     *)
(*                                                                         *)
(* JavaScript strings that are converted (feature codes, attribute names,  *)
(* labels, templates) are sequences of one-character strings, so that      *)
(* '' + v, +v and String.replace are computed.  Colors, palette names and  *)
(* titles are only compared and are TLA+ strings.                          *)
(***************************************************************************)
EXTENDS Integers, Sequences, FiniteSets, TLC

VARIABLES
    pc,             \* position of load(): "new", "imported", "built", "drawn"
    opts,           \* ChoroMap.opts (the part updateStyle reads)
    input,          \* the InputMapData received by load()
    data,           \* ChoroMap.data
    dataView,       \* ChoroMap.dataView
    dataLayerIndex, \* ChoroMap.dataLayerIndex
    variableIndex,  \* ChoroMap.variableIndex
    palette,        \* ChoroMap.palette
    palettes,       \* ChoroMap.palettes
    layer,          \* ChoroMap.layer is set (TRUE after draw)
    style,          \* style applied to each feature of the layer
    legend,         \* entries of the .map-legend element
    dom,            \* selectors created by draw and the active variable item
    dataValues,     \* dataValues of the single-view ChoroMap (src/src/index.ts)
    oldLoaded,      \* the single-view ChoroMap has loaded the same input
    tpc,            \* Template: "new", "parsed", "bound"
    template,       \* Template.template
    tvars,          \* Template.vars, in insertion order
    record,         \* the record given to Template.bind
    txt             \* the result of Template.bind

vars == <<pc, opts, input, data, dataView, dataLayerIndex, variableIndex, palette,
          palettes, layer, style, legend, dom, dataValues, oldLoaded,
          tpc, template, tvars, record, txt>>

mapVars == <<pc, opts, input, data, dataView, dataLayerIndex, variableIndex, palette,
             palettes, layer, style, legend, dom, dataValues, oldLoaded>>

mapVarsButOld == <<pc, opts, input, data, dataView, dataLayerIndex, variableIndex,
                   palette, palettes, layer, style, legend, dom>>

tplVars == <<tpc, template, tvars, record, txt>>

(***************************************************************************)
(* Bounds of the model.                                                    *)
(***************************************************************************)
MaxValue == 3        \* numeric attribute values are 0..MaxValue
MaxPalettes == 2     \* longest list of palette definitions enumerated
MaxTplParts == 4     \* templates are built from at most this many pieces

(***************************************************************************)
(* JavaScript values: Scalar = number | string | boolean, plus undefined   *)
(* and NaN.  One record shape for all of them.                             *)
(***************************************************************************)
Num(n) == [t |-> "num", n |-> n, s |-> <<>>]
Str(s) == [t |-> "str", n |-> 0, s |-> s]
Bool(b) == [t |-> "bool", n |-> IF b THEN 1 ELSE 0, s |-> <<>>]
Undefined == [t |-> "undef", n |-> 0, s |-> <<>>]
NaN == [t |-> "nan", n |-> 0, s |-> <<>>]

Digits == <<"0", "1", "2", "3", "4", "5", "6", "7", "8", "9">>

IsDigit(c) == \E d \in 1..10 : Digits[d] = c

DigitVal(c) == (CHOOSE d \in 1..10 : Digits[d] = c) - 1

RECURSIVE NumToStr(_)
\* Number.prototype.toString of an integer
NumToStr(n) ==
    IF n < 0 THEN <<"-">> \o NumToStr(-n)
    ELSE IF n < 10 THEN <<Digits[n + 1]>>
    ELSE NumToStr(n \div 10) \o <<Digits[(n % 10) + 1]>>

\* '' + v
ToStr(v) ==
    CASE v.t = "num" -> NumToStr(v.n)
      [] v.t = "str" -> v.s
      [] v.t = "bool" -> IF v.n = 1 THEN <<"t", "r", "u", "e">>
                         ELSE <<"f", "a", "l", "s", "e">>
      [] v.t = "nan" -> <<"N", "a", "N">>
      [] OTHER -> <<"u", "n", "d", "e", "f", "i", "n", "e", "d">>

RECURSIVE TrimLeft(_)
TrimLeft(s) == IF s # <<>> /\ Head(s) = " " THEN TrimLeft(Tail(s)) ELSE s

RECURSIVE TrimRight(_)
TrimRight(s) ==
    IF s # <<>> /\ s[Len(s)] = " " THEN TrimRight(SubSeq(s, 1, Len(s) - 1)) ELSE s

RECURSIVE DigitsValue(_, _)
DigitsValue(s, acc) ==
    IF s = <<>> THEN acc ELSE DigitsValue(Tail(s), 10 * acc + DigitVal(Head(s)))

AllDigits(s) == s # <<>> /\ \A i \in 1..Len(s) : IsDigit(s[i])

\* Number(string) for strings of digits, signs, spaces and letters
StrToNum(str) ==
    LET s == TrimRight(TrimLeft(str)) IN
    IF s = <<>> THEN Num(0)
    ELSE IF AllDigits(s) THEN Num(DigitsValue(s, 0))
    ELSE IF Head(s) = "-" /\ AllDigits(Tail(s)) THEN Num(0 - DigitsValue(Tail(s), 0))
    ELSE IF Head(s) = "+" /\ AllDigits(Tail(s)) THEN Num(DigitsValue(Tail(s), 0))
    ELSE NaN

\* +v
ToNumber(v) ==
    CASE v.t = "num" -> v
      [] v.t = "str" -> StrToNum(v.s)
      [] v.t = "bool" -> Num(v.n)
      [] OTHER -> NaN

\* if (v)
Truthy(v) ==
    CASE v.t = "num" -> v.n # 0
      [] v.t = "str" -> v.s # <<>>
      [] v.t = "bool" -> v.n = 1
      [] OTHER -> FALSE

\* a >= 1 && a <= n on numbers (every comparison with NaN is false)
InRange(v, n) == v.t = "num" /\ v.n >= 1 /\ v.n <= n

\* an object / Map with no entry
EmptyMap == [k \in {} |-> Undefined]

\* Map.get, obj[k]
Get(m, k) == IF k \in DOMAIN m THEN m[k] ELSE Undefined

(***************************************************************************)
(* Template: the popup template parser.                                    *)
(***************************************************************************)
LowerCase == {"a", "b", "c", "d", "e", "f", "g", "h", "i", "j", "k", "l", "m",
              "n", "o", "p", "q", "r", "s", "t", "u", "v", "w", "x", "y", "z"}

UpperCase == {"A", "B", "C", "D", "E", "F", "G", "H", "I", "J", "K", "L", "M",
              "N", "O", "P", "Q", "R", "S", "T", "U", "V", "W", "X", "Y", "Z"}

\* the character class [_a-zA-z0-9] of regexpVars; the range A-z also holds
\* the characters between Z and a (of which backslash and backquote are left
\* out here: no template of the model holds them)
NameChars ==
    {"_"} \cup LowerCase \cup UpperCase \cup {"[", "]", "^"}
          \cup {Digits[d] : d \in 1..10}

RECURSIVE NameRunEnd(_, _)
\* index of the last character of the longest run of name characters from i
\* (i - 1 when there is none)
NameRunEnd(s, i) ==
    IF i <= Len(s) /\ s[i] \in NameChars THEN NameRunEnd(s, i + 1) ELSE i - 1

\* regexpVars matched at position i: the index of the closing brace, 0 if none
MatchEnd(s, i) ==
    IF s[i] # "{" THEN 0
    ELSE LET e == NameRunEnd(s, i + 1) IN
         IF e >= i + 1 /\ e + 1 <= Len(s) /\ s[e + 1] = "}" THEN e + 1 ELSE 0

RECURSIVE MatchAll(_, _)
\* template.match(regexpVars): the matches of the global regexp from i on
MatchAll(s, i) ==
    IF i > Len(s) THEN <<>>
    ELSE LET e == MatchEnd(s, i) IN
         IF e = 0 THEN MatchAll(s, i + 1)
         ELSE <<SubSeq(s, i, e)>> \o MatchAll(s, e + 1)

IsBrace(c) == c = "{" \/ c = "}"

NotBrace(c) == ~IsBrace(c)

\* m.replace(/\{|\}/g, '')
StripBraces(m) == SelectSeq(m, NotBrace)

HasPlaceholder(vs, m) == \E i \in 1..Len(vs) : vs[i].placeholder = m

RECURSIVE CollectVars(_, _)
\* r.forEach(m => ...) of the constructor, vs being this.vars so far
CollectVars(r, vs) ==
    IF r = <<>> THEN vs
    ELSE IF HasPlaceholder(vs, Head(r)) THEN CollectVars(Tail(r), vs)
    ELSE CollectVars(Tail(r),
            Append(vs, [placeholder |-> Head(r), variable |-> StripBraces(Head(r))]))

\* new Template(template).vars
Template_vars(tpl) == CollectVars(MatchAll(tpl, 1), <<>>)

\* String.indexOf: first position where p occurs in s, 0 if none
IndexOf(s, p) ==
    LET hits == {i \in 1..(Len(s) - Len(p) + 1) : SubSeq(s, i, i + Len(p) - 1) = p} IN
    IF hits = {} THEN 0 ELSE CHOOSE i \in hits : \A j \in hits : i <= j

\* s.replace(p, r) with a string pattern p and a replacement r holding no '$'
StringReplace(s, p, r) ==
    LET i == IndexOf(s, p) IN
    IF i = 0 THEN s
    ELSE SubSeq(s, 1, i - 1) \o r \o SubSeq(s, i + Len(p), Len(s))

RECURSIVE BindVars(_, _, _)
\* this.vars.forEach((variable, placeholder) => ...) of bind
BindVars(vs, rec, t) ==
    IF vs = <<>> THEN t
    ELSE IF Head(vs).variable \in DOMAIN rec
         THEN LET got == rec[Head(vs).variable]
                  v == IF got.t = "undef" THEN Str(<<>>) ELSE got
              IN  BindVars(Tail(vs), rec, StringReplace(t, Head(vs).placeholder, ToStr(v)))
         ELSE BindVars(Tail(vs), rec, t)

\* Template.bind
Template_bind(tpl, vs, rec) == BindVars(vs, rec, tpl)

(***************************************************************************)
(* Inputs: the geographic layout and the map data files that are loaded.   *)
(***************************************************************************)
Code01 == <<"0", "1">>
Code1 == <<"1">>
Code0 == <<"0">>
Code9 == <<"9">>

AttrA == <<"a">>
AttrB == <<"b">>
LabelAttr == <<"_", "l", "a", "b", "e", "l", "_">>

LabLow == <<"l", "o">>
LabHigh == <<"h", "i">>
LabOnly == <<"o", "n", "e">>

\* a geojson feature: properties.code is a string, a number or missing
Feature(code) == [present |-> TRUE, code |-> code]

\* the features of the layout
Features ==
    {Feature(Str(Code01)), Feature(Num(1)), Feature(Str(Code9)), Feature(Num(0)),
     Feature(Str(<<>>)), Feature(Undefined)}

\* attribute values found in a layer
ValueDomain ==
    {Num(n) : n \in 0..MaxValue}
        \cup {Str(<<"2">>), Str(<<"x">>), Str(<<>>), Bool(TRUE)}

NoPopup == <<>>

VarA == [color |-> AttrA, title |-> "A", popup |-> NoPopup,
         labels |-> <<LabLow, LabHigh>>]

VarB == [color |-> AttrB, title |-> "B",
         popup |-> <<"{", "b", "}", ":", "{", "_", "l", "a", "b", "e", "l", "_", "}">>,
         labels |-> <<LabOnly>>]

VariableLists == {<<>>, <<VarA>>, <<VarA, VarB>>, <<VarB, VarA>>}

\* marks an attribute that a record does not hold
Absent == [t |-> "absent", n |-> 0, s |-> <<>>]

\* one attribute record: a and b are each a value or Absent
Attributes(a, b) ==
    [k \in (IF a = Absent THEN {} ELSE {AttrA}) \cup (IF b = Absent THEN {} ELSE {AttrB})
        |-> IF k = AttrA THEN a ELSE b]

\* LayerData: feature code -> attributes
LayerDataOf(a, b) ==
    (Code01 :> Attributes(a, b)) @@ (Code1 :> Attributes(Num(2), Num(1)))
        @@ (Code0 :> Attributes(Num(1), Absent))

LayerDatas ==
    {LayerDataOf(a, b) : a \in ValueDomain, b \in {Num(1)}}
        \cup {LayerDataOf(a, Absent) : a \in ValueDomain}
        \cup {LayerDataOf(Absent, Num(1))}

LayerOne == [data |-> LayerDataOf(Num(1), Num(1))]
LayerTwo == [data |-> LayerDataOf(Num(2), Absent)]

\* ColorPalette
PaletteDef(name, hasColors, colors, opacity) ==
    [name |-> name, hasColors |-> hasColors, colors |-> colors, opacity |-> opacity]

NoName == ""

PaletteDefs ==
    {PaletteDef(NoName, TRUE, <<"red", "blue">>, 80),
     PaletteDef(NoName, TRUE, <<"green">>, 0),
     PaletteDef("BuPu", FALSE, <<>>, 0),
     PaletteDef("Nope", FALSE, <<>>, 0),
     PaletteDef("BuPu", TRUE, <<"black", "white">>, 0),
     PaletteDef(NoName, FALSE, <<>>, 0)}

RECURSIVE SeqsUpTo(_, _)
\* the sequences over S of length at most n
SeqsUpTo(S, n) ==
    IF n = 0 THEN {<<>>}
    ELSE LET prev == SeqsUpTo(S, n - 1) IN
         prev \cup {Append(q, x) : q \in prev, x \in S}

\* the colors / palettes / defaultOpacity part of an input
PaletteConfig(isArray, arr, num, hasPalettes, pals, opacity) ==
    [colorsIsArray |-> isArray, colorsArr |-> arr, colorsNum |-> num,
     hasPalettes |-> hasPalettes, palettes |-> pals, defaultOpacity |-> opacity]

ColorsChoices ==
    {<<FALSE, <<>>, 2>>, <<FALSE, <<>>, 3>>, <<TRUE, <<"red", "blue">>, 0>>}

AllPaletteConfigs ==
    {PaletteConfig(c[1], c[2], c[3], TRUE, ps, 0) :
        c \in ColorsChoices, ps \in SeqsUpTo(PaletteDefs, MaxPalettes)}
      \cup {PaletteConfig(c[1], c[2], c[3], FALSE, <<>>, 0) : c \in ColorsChoices}

CorePaletteConfigs ==
    {PaletteConfig(FALSE, <<>>, 2, TRUE, <<PaletteDef("BuPu", FALSE, <<>>, 0)>>, o) :
        o \in {0, 50}}
      \cup {PaletteConfig(TRUE, <<"red", "blue">>, 0, FALSE, <<>>, o) : o \in {0, 50}}
      \cup {PaletteConfig(FALSE, <<>>, 2, TRUE,
                <<PaletteDef(NoName, TRUE, <<"red", "blue">>, 80),
                  PaletteDef("BuPu", FALSE, <<>>, 0)>>, 50),
            PaletteConfig(FALSE, <<>>, 3, TRUE,
                <<PaletteDef("BuPu", FALSE, <<>>, 0),
                  PaletteDef(NoName, TRUE, <<"green">>, 0)>>, 0),
            PaletteConfig(FALSE, <<>>, 2, FALSE, <<>>, 0)}

\* the data part of an input: old fashion (data, labels) or layered
DataShape(hasD, d, hasLb, lb, hasVs, vs, hasLy, ly, hasDl, dl) ==
    [hasData |-> hasD, data |-> d, hasLabels |-> hasLb, labels |-> lb,
     hasVariables |-> hasVs, variables |-> vs,
     hasLayers |-> hasLy, layers |-> ly,
     hasDefaultLayer |-> hasDl, defaultLayer |-> dl]

\* old fashion data: feature code -> number
OldData(v) ==
    IF v = Absent THEN (Code1 :> Num(2)) @@ (Code0 :> Num(1))
    ELSE (Code01 :> v) @@ (Code1 :> Num(2)) @@ (Code0 :> Num(1))

OldShapes ==
    {DataShape(TRUE, OldData(v), l[1], l[2], FALSE, <<>>, FALSE, <<>>, FALSE, 0) :
        v \in {Num(n) : n \in 0..MaxValue} \cup {Absent},
        l \in {<<FALSE, <<>>>>, <<TRUE, <<LabLow, LabHigh>>>>}}

LayeredShapes ==
    {DataShape(FALSE, EmptyMap, FALSE, <<>>, vs # <<>>, vs, TRUE, <<[data |-> ld]>>,
               FALSE, 0) : vs \in VariableLists, ld \in LayerDatas}
      \cup {DataShape(FALSE, EmptyMap, FALSE, <<>>, TRUE, vs, TRUE, <<LayerOne, LayerTwo>>,
                      k[1], k[2]) :
                vs \in {<<VarA>>, <<VarA, VarB>>},
                k \in {<<FALSE, 0>>, <<TRUE, 0>>, <<TRUE, 1>>}}
      \cup {DataShape(FALSE, EmptyMap, FALSE, <<>>, TRUE, <<VarA>>, h, <<>>, FALSE, 0) :
                h \in BOOLEAN}

CoreShapes ==
    {DataShape(TRUE, OldData(Num(1)), TRUE, <<LabLow, LabHigh>>, FALSE, <<>>, FALSE, <<>>,
               FALSE, 0),
     DataShape(FALSE, EmptyMap, FALSE, <<>>, TRUE, <<VarA, VarB>>, TRUE, <<LayerOne>>,
               FALSE, 0),
     DataShape(FALSE, EmptyMap, FALSE, <<>>, TRUE, <<VarA>>, FALSE, <<>>, FALSE, 0)}

\* InputMapData
MakeInput(shape, config) ==
    [hasData |-> shape.hasData, data |-> shape.data,
     hasLabels |-> shape.hasLabels, labels |-> shape.labels,
     hasVariables |-> shape.hasVariables, variables |-> shape.variables,
     hasLayers |-> shape.hasLayers, layers |-> shape.layers,
     hasDefaultLayer |-> shape.hasDefaultLayer, defaultLayer |-> shape.defaultLayer,
     colorsIsArray |-> config.colorsIsArray, colorsArr |-> config.colorsArr,
     colorsNum |-> config.colorsNum,
     hasPalettes |-> config.hasPalettes, palettes |-> config.palettes,
     defaultOpacity |-> config.defaultOpacity, layout |-> "france"]

Inputs ==
    {MakeInput(sh, cf) : sh \in OldShapes \cup LayeredShapes, cf \in CorePaletteConfigs}
      \cup {MakeInput(sh, cf) : sh \in CoreShapes, cf \in AllPaletteConfigs}

NoInput == MakeInput(DataShape(FALSE, EmptyMap, FALSE, <<>>, FALSE, <<>>, FALSE, <<>>,
                               FALSE, 0),
                     PaletteConfig(FALSE, <<>>, 0, FALSE, <<>>, 0))

\* FranceChoroMapOpts.defaultOpacity, in percent (0: not given)
OptsChoices == {[defaultOpacity |-> o] : o \in {0, 40}}

(***************************************************************************)
(* colors.ts: the internal palettes, by name and size.                     *)
(***************************************************************************)
colorPalettes ==
    [palettes |->
        [BuPu |-> (2 :> <<"#e0ecf4", "#8856a7">>)
                  @@ (3 :> <<"#e0ecf4", "#9ebcda", "#8856a7">>)
                  @@ (4 :> <<"#edf8fb", "#b3cde3", "#8c96c6", "#88419d">>)]]

\* an optional color list
NoColors == [found |-> FALSE, colors |-> <<>>]
SomeColors(cc) == [found |-> TRUE, colors |-> cc]

get_palette(name, length) ==
    IF name \notin DOMAIN colorPalettes.palettes THEN NoColors
    ELSE LET p == colorPalettes.palettes[name] IN
         IF length \in DOMAIN p THEN SomeColors(p[length]) ELSE NoColors

(***************************************************************************)
(* DataView                                                                *)
(***************************************************************************)
\* Map.set, obj[k] = v
Put(m, k, v) == [x \in DOMAIN m \cup {k} |-> IF x = k THEN v ELSE m[x]]

DataView_colorLabel(variable, index) ==
    IF index.t # "num" \/ index.n = 0 THEN Undefined
    ELSE IF index.n > 0 /\ index.n <= Len(variable.labels)
         THEN Str(variable.labels[index.n])
         ELSE Undefined

NoTemplate == [defined |-> FALSE, template |-> <<>>, vars |-> <<>>]

DataView_updateVariable(variable) ==
    IF variable.popup # <<>>
    THEN [defined |-> TRUE, template |-> variable.popup, vars |-> Template_vars(variable.popup)]
    ELSE NoTemplate

\* the attributes of one feature as the constructor stores them
DataView_attributes(attributes, variable) ==
    LET color == Get(attributes, variable.color) IN
    IF Truthy(color)
    THEN LET color_label == DataView_colorLabel(variable, ToNumber(color)) IN
         Put(attributes, LabelAttr,
             IF color_label.t = "undef" THEN Str(<<>>) ELSE color_label)
    ELSE attributes

NoVariable == [color |-> <<>>, title |-> "", popup |-> NoPopup, labels |-> <<>>]

NoDataView ==
    [defined |-> FALSE, data |-> EmptyMap, variable |-> NoVariable,
     popupTemplate |-> NoTemplate]

\* new DataView(data, variable)
DataView_new(layerData, variable) ==
    [defined |-> TRUE,
     data |-> [code \in DOMAIN layerData |-> DataView_attributes(layerData[code], variable)],
     variable |-> variable,
     popupTemplate |-> DataView_updateVariable(variable)]

DataView_setVariable(dv, v) ==
    [dv EXCEPT !.variable = v, !.popupTemplate = DataView_updateVariable(v)]

DataView_getColorLabels(dv) == dv.variable.labels

NoRecord == [found |-> FALSE, attributes |-> EmptyMap]

\* if (id): the feature has a code
HasCode(feature) == feature.present /\ Truthy(feature.code)

DataView_getRecord(dv, feature) ==
    IF HasCode(feature) /\ ToStr(feature.code) \in DOMAIN dv.data
    THEN [found |-> TRUE, attributes |-> dv.data[ToStr(feature.code)]]
    ELSE NoRecord

\* DataView_getColorValue testing if (v) instead of typeof (v) !== "undefined"
DataView_getColorValueTruthy(dv, feature) ==
    LET rec == DataView_getRecord(dv, feature) IN
    IF rec.found
    THEN LET v == Get(rec.attributes, dv.variable.color) IN
         IF Truthy(v) THEN ToNumber(v) ELSE Undefined
    ELSE Undefined

DataView_getColorValue(dv, feature) ==
    LET rec == DataView_getRecord(dv, feature) IN
    IF rec.found
    THEN LET v == Get(rec.attributes, dv.variable.color) IN
         IF v.t # "undef" THEN ToNumber(v) ELSE Undefined
    ELSE Undefined

DataView_getPopupContent(dv, feature) ==
    LET rec == DataView_getRecord(dv, feature)
        v == DataView_getColorValue(dv, feature)
    IN  IF dv.popupTemplate.defined /\ rec.found
        THEN Template_bind(dv.popupTemplate.template, dv.popupTemplate.vars, rec.attributes)
        ELSE IF Truthy(v) THEN ToStr(DataView_colorLabel(dv.variable, v))
        ELSE <<>>

(***************************************************************************)
(* ChoroMap                                                                *)
(***************************************************************************)
NoData ==
    [defined |-> FALSE, variables |-> <<>>, palettes |-> <<>>, n_colors |-> 0,
     layout |-> "", layers |-> <<>>, defaultLayer |-> 0, defaultOpacity |-> 0]

\* the style of a path before any setStyle (Leaflet's)
InitialStyle == [color |-> "#3388ff", stroke |-> TRUE, fillOpacity |-> 20]

NoDom ==
    [hasVarSelect |-> FALSE, activeVar |-> -1, hasPaletteSelect |-> FALSE,
     hasLegend |-> FALSE]

\* the attribute of the single variable of an old fashion input
OldColorAttr == <<"c">>

\* importData: the variables of the normalized data
ImportVariables(in) ==
    IF in.hasData
    THEN <<[color |-> OldColorAttr, labels |-> IF in.hasLabels THEN in.labels ELSE <<>>,
            title |-> "", popup |-> NoPopup]>>
    ELSE IF in.hasVariables THEN in.variables ELSE <<>>

\* importData: the layers of the normalized data
ImportLayers(in) ==
    IF in.hasData
    THEN <<[data |-> [id \in DOMAIN in.data |-> (OldColorAttr :> in.data[id])]]>>
    ELSE IF in.hasLayers THEN in.layers ELSE <<>>

\* importData: var defaultLayer: number = 0
ImportDefaultLayer(in) == 0

\* importData: the palette definitions
ImportPalettes(in) ==
    IF in.hasPalettes THEN in.palettes
    ELSE IF in.colorsIsArray THEN <<PaletteDef(NoName, TRUE, in.colorsArr, 0)>>
    ELSE <<>>

\* importData: the number of colors
ImportNColors(in) == IF in.colorsIsArray THEN Len(in.colorsArr) ELSE in.colorsNum

\* FeatureColor with the upper limit excluded (v < n_colors)
FeatureColorBelow(colors, v) ==
    IF v.t # "undef" /\ v.t = "num" /\ v.n >= 1 /\ v.n < Len(colors)
    THEN colors[v.n] ELSE "#EEEEEE"

\* the 1-indexed value of a feature is colors[v - 1]
FeatureColor(colors, v) ==
    IF v.t # "undef" /\ InRange(v, Len(colors)) THEN colors[v.n] ELSE "#EEEEEE"

\* LegendOf with one entry per label instead of one per color
LegendOfLabels(colors, labels) ==
    [i \in 1..Len(labels) |->
        [label |-> Str(labels[i]),
         color |-> IF i <= Len(colors) THEN colors[i] ELSE "undefined"]]

\* the legend: one entry per color, with the label of the same index
LegendOf(colors, labels) ==
    [i \in 1..Len(colors) |->
        [label |-> IF i <= Len(labels) THEN Str(labels[i]) ELSE Undefined,
         color |-> colors[i]]]

DefaultFillOpacity == 60

defaultOpacity(d, o) ==
    IF d.defaultOpacity # 0 THEN d.defaultOpacity
    ELSE IF o.defaultOpacity # 0 THEN o.defaultOpacity
    ELSE DefaultFillOpacity

getValue(dv, feature) ==
    IF dv.defined THEN DataView_getColorValue(dv, feature) ELSE Undefined

\* this.palettes[this.palette] is a palette with colors
UsablePalette(ps, p) == p >= 0 /\ p < Len(ps) /\ ps[p + 1].hasColors

\* updateStyle, on the fields as the calling handler has just set them
updateStyle(d, dv, hasLayer, ps, p, vi, dm) ==
    IF ~d.defined \/ ~dv.defined \/ ~hasLayer \/ ~UsablePalette(ps, p)
    THEN /\ style' = style
         /\ legend' = legend
         /\ dom' = dm
    ELSE LET colors == ps[p + 1].colors
             fillOpacity == IF ps[p + 1].opacity # 0 THEN ps[p + 1].opacity
                            ELSE defaultOpacity(d, opts)
         IN  /\ style' = [f \in Features |->
                            [color |-> FeatureColor(colors, getValue(dv, f)),
                             stroke |-> FALSE, fillOpacity |-> fillOpacity]]
             /\ legend' = IF dm.hasLegend
                          THEN LegendOf(colors, DataView_getColorLabels(dv))
                          ELSE legend
             /\ dom' = IF dm.hasVarSelect THEN [dm EXCEPT !.activeVar = vi]
                       ELSE dm

\* importData(input)
ImportData ==
    /\ pc = "new"
    /\ pc' = "imported"
    /\ palette' = 0
    /\ LET variables == ImportVariables(input)
           layers == ImportLayers(input)
           defaultLayer == ImportDefaultLayer(input)
       IN  IF Len(layers) = 0 \/ Len(variables) = 0
           THEN UNCHANGED <<data, dataLayerIndex, variableIndex, dataView>>
           ELSE /\ data' = [defined |-> TRUE, variables |-> variables,
                            palettes |-> ImportPalettes(input),
                            n_colors |-> ImportNColors(input),
                            layout |-> input.layout, layers |-> layers,
                            defaultLayer |-> defaultLayer,
                            defaultOpacity |-> input.defaultOpacity]
                /\ dataLayerIndex' = defaultLayer
                /\ variableIndex' = 0
                /\ dataView' = DataView_new(layers[defaultLayer + 1].data, variables[1])
    /\ UNCHANGED <<opts, input, palettes, layer, style, legend, dom, dataValues,
                   oldLoaded, tplVars>>

\* one palette definition as buildPalettes leaves it
ResolvePalette(def, n_colors) ==
    IF def.hasColors THEN def
    ELSE IF def.name # NoName /\ get_palette(def.name, n_colors).found
         THEN [def EXCEPT !.hasColors = TRUE,
                          !.colors = get_palette(def.name, n_colors).colors]
         ELSE def

\* KeepPalette without the lookup of the name
KeepPaletteNamed(def, n_colors) == def.hasColors \/ def.name # NoName

\* buildPalettes pushes the definition
KeepPalette(def, n_colors) ==
    \/ def.hasColors
    \/ def.name # NoName /\ get_palette(def.name, n_colors).found

RECURSIVE PushPalettes(_, _, _)
\* this.data.palettes.forEach(...), ps being this.palettes so far
PushPalettes(defs, n_colors, ps) ==
    IF defs = <<>> THEN ps
    ELSE PushPalettes(Tail(defs), n_colors,
            IF KeepPalette(Head(defs), n_colors)
            THEN Append(ps, ResolvePalette(Head(defs), n_colors))
            ELSE ps)

\* buildPalettes()
BuildPalettes ==
    /\ pc = "imported"
    /\ pc' = "built"
    /\ IF ~data.defined
       THEN UNCHANGED <<data, palettes>>
       ELSE /\ palettes' = PushPalettes(data.palettes, data.n_colors, palettes)
            /\ data' = [data EXCEPT !.palettes =
                            [i \in 1..Len(data.palettes) |->
                                ResolvePalette(data.palettes[i], data.n_colors)]]
    /\ UNCHANGED <<opts, input, dataView, dataLayerIndex, variableIndex, palette, layer,
                   style, legend, dom, dataValues, oldLoaded, tplVars>>

\* draw(layout)
Draw ==
    /\ pc = "built"
    /\ pc' = "drawn"
    /\ IF ~data.defined
       THEN UNCHANGED <<layer, style, legend, dom>>
       ELSE /\ layer' = TRUE
            /\ updateStyle(data, dataView, TRUE, palettes, palette, variableIndex,
                    [hasVarSelect |-> Len(data.variables) > 1,
                     activeVar |-> IF Len(data.variables) > 1 THEN variableIndex ELSE -1,
                     hasPaletteSelect |-> Len(palettes) > 1,
                     hasLegend |-> TRUE])
    /\ UNCHANGED <<opts, input, data, dataView, dataLayerIndex, variableIndex, palette,
                   palettes, dataValues, oldLoaded, tplVars>>

\* indexes given to selectVariable
VariableIndexes == -1..2

\* selectVariable(index): a click on a variable item, or a call
SelectVariable ==
    /\ pc \in {"new", "imported", "built", "drawn"}
    /\ \E index \in VariableIndexes :
        IF data.defined /\ dataView.defined /\ index >= 0
            /\ index <= Len(data.variables) - 1
        THEN /\ variableIndex' = index
             /\ dataView' = DataView_setVariable(dataView, data.variables[index + 1])
             /\ updateStyle(data, dataView', layer, palettes, palette, index, dom)
        ELSE UNCHANGED <<variableIndex, dataView, style, legend, dom>>
    /\ UNCHANGED <<pc, opts, input, data, dataLayerIndex, palette, palettes, layer,
                   dataValues, oldLoaded, tplVars>>

\* the change handler of the palette selector
ChangePalette ==
    /\ pc = "drawn"
    /\ dom.hasPaletteSelect
    /\ \E value \in 0..(Len(palettes) - 1) :
        /\ palette' = value
        /\ updateStyle(data, dataView, layer, palettes, value, variableIndex, dom)
    /\ UNCHANGED <<pc, opts, input, data, dataView, dataLayerIndex, variableIndex,
                   palettes, layer, dataValues, oldLoaded, tplVars>>

(***************************************************************************)
(* The single-view ChoroMap of src/src/index.ts, given the same input.     *)
(***************************************************************************)
\* load(): this.dataValues = new Map(Object.entries(data.data))
OldLoad ==
    /\ pc \in {"new", "imported", "built", "drawn"}
    /\ ~oldLoaded
    /\ input.hasData
    /\ oldLoaded' = TRUE
    /\ dataValues' = input.data
    /\ UNCHANGED <<mapVarsButOld, tplVars>>

Old_getValue(values, feature) ==
    IF HasCode(feature) THEN Get(values, ToStr(feature.code)) ELSE Undefined

(***************************************************************************)
(* Templates and records given to the Template.                            *)
(***************************************************************************)
TemplatePieces ==
    {<<"{">>, <<"}">>, <<"a">>, <<"7">>, <<" ">>, <<"{", "a", "}">>, <<"{", "b", "}">>}

RECURSIVE TemplatesOf(_)
\* the concatenations of at most n pieces
TemplatesOf(n) ==
    IF n = 0 THEN {<<>>}
    ELSE LET prev == TemplatesOf(n - 1) IN
         prev \cup {t \o q : t \in prev, q \in TemplatePieces}

Templates == TemplatesOf(MaxTplParts)

\* records: attribute a, attribute b, each present or not (no value holds '$')
TemplateRecords ==
    {Attributes(a, b) :
        a \in {Absent, Num(7), Str(<<"x", " ", "y">>), Bool(TRUE), Str(<<"{", "b", "}">>)},
        b \in {Absent, Str(<<>>), Num(12)}}

\* new Template(template)
TemplateNew ==
    /\ tpc = "new"
    /\ tpc' = "parsed"
    /\ tvars' = Template_vars(template)
    /\ UNCHANGED <<template, record, txt, mapVars>>

\* bind(data)
TemplateBind ==
    /\ tpc \in {"parsed", "bound"}
    /\ tpc' = "bound"
    /\ \E rec \in TemplateRecords :
        /\ record' = rec
        /\ txt' = Template_bind(template, tvars, rec)
    /\ UNCHANGED <<template, tvars, mapVars>>

(***************************************************************************)
(* Specifications                                                          *)
(***************************************************************************)
MapFieldsInit ==
    /\ data = NoData
    /\ dataView = NoDataView
    /\ dataLayerIndex = 0
    /\ variableIndex = 0
    /\ palette = 0
    /\ palettes = <<>>
    /\ layer = FALSE
    /\ style = [f \in Features |-> InitialStyle]
    /\ legend = <<>>
    /\ dom = NoDom
    /\ dataValues = EmptyMap
    /\ oldLoaded = FALSE

TemplateFieldsIdle ==
    /\ template = <<>>
    /\ tvars = <<>>
    /\ record = EmptyMap
    /\ txt = <<>>

\* a constructed ChoroMap and the data file it is about to load
Init ==
    /\ pc = "new"
    /\ opts \in OptsChoices
    /\ input \in Inputs
    /\ MapFieldsInit
    /\ tpc = "idle"
    /\ TemplateFieldsIdle

Next ==
    \/ ImportData
    \/ BuildPalettes
    \/ Draw
    \/ SelectVariable
    \/ ChangePalette
    \/ OldLoad

Spec == Init /\ [][Next]_vars

\* a Template about to be constructed
TemplateInit ==
    /\ pc = "idle"
    /\ opts \in {[defaultOpacity |-> 0]}
    /\ input = NoInput
    /\ MapFieldsInit
    /\ tpc = "new"
    /\ template \in Templates
    /\ tvars = <<>>
    /\ record = EmptyMap
    /\ txt = <<>>

TemplateNext ==
    \/ TemplateNew
    \/ TemplateBind

TemplateSpec == TemplateInit /\ [][TemplateNext]_vars

(***************************************************************************)
(* Claims                                                                  *)
(***************************************************************************)
Loaded == pc \in {"imported", "built", "drawn"}

Built == pc \in {"built", "drawn"}

\* the color list of the selected palette
SelectedColors == palettes[palette + 1].colors

\* the attributes the data view holds for a feature that has a code and a record
HasRecord(f) == HasCode(f) /\ ToStr(f.code) \in DOMAIN dataView.data

RecordOf(f) == dataView.data[ToStr(f.code)]

\* the feature has a value for the current variable
HasColorValue(f) == HasRecord(f) /\ dataView.variable.color \in DOMAIN RecordOf(f)

ColorValueOf(f) == ToNumber(RecordOf(f)[dataView.variable.color])

\* C1: once the map is drawn and the selected palette is usable, with color
\* list C, a feature whose value v for the current variable is a number with
\* 1 <= v <= Len(C) is filled with the v-th color of C (1-indexed), and a
\* feature with no code, no record, no value, or a value outside 1..Len(C)
\* is filled with '#EEEEEE'.
C1_FillColor ==
    (pc = "drawn" /\ data.defined /\ UsablePalette(palettes, palette)) =>
        \A f \in Features :
            IF HasColorValue(f) /\ InRange(ColorValueOf(f), Len(SelectedColors))
            THEN style[f].color = SelectedColors[ColorValueOf(f).n]
            ELSE style[f].color = "#EEEEEE"

\* C1 witness: after a palette change, one feature shows its palette color,
\* one has a record whose value is out of range, one has no record
C1_Witness ==
    /\ pc = "drawn"
    /\ palette = 1
    /\ UsablePalette(palettes, palette)
    /\ \E f \in Features :
        /\ HasColorValue(f)
        /\ InRange(ColorValueOf(f), Len(SelectedColors))
        /\ style[f].color = SelectedColors[ColorValueOf(f).n]
    /\ \E f \in Features :
        /\ HasColorValue(f)
        /\ ~InRange(ColorValueOf(f), Len(SelectedColors))
        /\ style[f].color = "#EEEEEE"
    /\ \E f \in Features : ~HasRecord(f) /\ style[f].color = "#EEEEEE"

\* C2: after importData and any selectVariable calls, every record whose
\* value i for the current variable's color attribute satisfies
\* 1 <= i <= Len(labels) has _label_ equal to the i-th label (1-indexed) of
\* the current variable.
C2_LabelFollowsVariable ==
    (Loaded /\ dataView.defined) =>
        \A code \in DOMAIN dataView.data :
            LET rec == dataView.data[code]
                i == ToNumber(Get(rec, dataView.variable.color))
            IN  InRange(i, Len(dataView.variable.labels)) =>
                    Get(rec, LabelAttr) = Str(dataView.variable.labels[i.n])

\* the characters a value must not hold for C3
IsPlain(str) == \A i \in 1..Len(str) : str[i] \notin {"{", "}", "$"}

PlainRecord(rec) == \A k \in DOMAIN rec : IsPlain(ToStr(rec[k]))

RECURSIVE RenderAll(_, _, _)
\* the template from position i on, with every placeholder whose name is an
\* attribute of rec replaced by the text of its value
RenderAll(s, i, rec) ==
    IF i > Len(s) THEN <<>>
    ELSE LET e == MatchEnd(s, i) IN
         IF e = 0 THEN <<s[i]>> \o RenderAll(s, i + 1, rec)
         ELSE (IF SubSeq(s, i + 1, e - 1) \in DOMAIN rec
               THEN ToStr(rec[SubSeq(s, i + 1, e - 1)])
               ELSE SubSeq(s, i, e)) \o RenderAll(s, e + 1, rec)

\* C3: for a record whose values hold no '{', '}' or '$', bind returns the
\* template with every occurrence of a placeholder {name}, name an attribute
\* of the record, replaced by the value as text, the other placeholders
\* left unchanged.
C3_BindReplacesEvery ==
    (tpc = "bound" /\ PlainRecord(record)) => txt = RenderAll(template, 1, record)

\* C4: after importData of an input with layers and variables whose
\* defaultLayer is k, 0 <= k < Len(layers), dataLayerIndex and
\* data.defaultLayer are k and the data view is built from layers[k].data.
C4_DefaultLayerUsed ==
    (/\ pc = "imported"
     /\ ~input.hasData
     /\ input.hasLayers /\ input.hasVariables
     /\ Len(input.variables) > 0
     /\ input.hasDefaultLayer
     /\ input.defaultLayer >= 0 /\ input.defaultLayer < Len(input.layers)) =>
        /\ dataLayerIndex = input.defaultLayer
        /\ data.defaultLayer = input.defaultLayer
        /\ DOMAIN dataView.data = DOMAIN input.layers[input.defaultLayer + 1].data
        /\ \A code \in DOMAIN dataView.data :
            \A k \in DOMAIN input.layers[input.defaultLayer + 1].data[code] :
                Get(dataView.data[code], k)
                    = input.layers[input.defaultLayer + 1].data[code][k]

\* an internal palette of this name and size exists
InternalExists(name, n) ==
    /\ name \in DOMAIN colorPalettes.palettes
    /\ n \in DOMAIN colorPalettes.palettes[name]

RECURSIVE ExpectedPalettes(_, _)
\* the definitions with explicit colors as given, those with only a known
\* name with the internal colors, the others omitted, in order
ExpectedPalettes(defs, n) ==
    IF defs = <<>> THEN <<>>
    ELSE LET d == Head(defs) IN
         (IF d.hasColors THEN <<d>>
          ELSE IF d.name # NoName /\ InternalExists(d.name, n)
               THEN <<PaletteDef(d.name, TRUE, colorPalettes.palettes[d.name][n], d.opacity)>>
               ELSE <<>>) \o ExpectedPalettes(Tail(defs), n)

\* the palette definitions of the input: its palettes, or its colors array
InputPaletteDefs ==
    IF input.hasPalettes THEN input.palettes
    ELSE IF input.colorsIsArray THEN <<PaletteDef(NoName, TRUE, input.colorsArr, 0)>>
    ELSE <<>>

C6_SameSize ==
    (Built /\ data.defined) =>
        \A i \in 1..Len(palettes) : Len(palettes[i].colors) = data.n_colors

\* C7: for an old fashion input, importData leaves one layer and one
\* variable, getValue of a feature with code k is input.data[k] when k is a
\* key of input.data and undefined otherwise, and for every feature it is the
\* value getValue of the single-view ChoroMap returns.
C7_LegacyValues ==
    (Loaded /\ input.hasData) =>
        /\ data.defined
        /\ Len(data.layers) = 1
        /\ Len(data.variables) = 1
        /\ \A f \in Features :
            /\ HasCode(f) =>
                getValue(dataView, f)
                    = IF ToStr(f.code) \in DOMAIN input.data
                      THEN input.data[ToStr(f.code)]
                      ELSE Undefined
            /\ ~HasCode(f) => getValue(dataView, f) = Undefined
            /\ oldLoaded => getValue(dataView, f) = Old_getValue(dataValues, f)

\* C7 witness: both maps have loaded an old fashion input in which one
\* feature has the value 0, one a value of 2 under a numeric code, and one
\* has no entry
C7_Witness ==
    /\ pc = "drawn"
    /\ input.hasData
    /\ oldLoaded
    /\ getValue(dataView, Feature(Str(Code01))) = Num(0)
    /\ getValue(dataView, Feature(Num(1))) = Num(2)
    /\ getValue(dataView, Feature(Str(Code9))) = Undefined

\* C8: once drawn, whatever variables and palettes were selected, if the
\* selected palette is usable the legend has one entry per color of the
\* selected palette, in order, and the i-th entry pairs the i-th color with
\* the i-th label of the selected variable.
C8_LegendFollows ==
    (pc = "drawn" /\ data.defined /\ UsablePalette(palettes, palette)) =>
        /\ Len(legend) = Len(SelectedColors)
        /\ \A i \in 1..Len(legend) :
            /\ legend[i].color = SelectedColors[i]
            /\ i <= Len(data.variables[variableIndex + 1].labels) =>
                legend[i].label = Str(data.variables[variableIndex + 1].labels[i])

\* C8 witness: the second variable and the second palette are selected and
\* the legend shows that palette with that variable's label
C8_Witness ==
    /\ pc = "drawn"
    /\ variableIndex = 1
    /\ palette = 1
    /\ UsablePalette(palettes, palette)
    /\ palettes[1].colors # palettes[2].colors
    /\ data.variables[1].labels # data.variables[2].labels
    /\ Len(legend) = Len(SelectedColors)
    /\ legend[1].color = SelectedColors[1]
    /\ legend[1].label = Str(data.variables[2].labels[1])

====
